---- MODULE Spec2Model ----
(***************************************************************************)
(* Model of the three Azure helper scripts:                                *)
(*   deploy_webapp.py   - SpecDeploy                                       *)
(*   cost_analyzer.py   - SpecCost (cost table), SpecAnalyzer (whole main) *)
(*   resource_status.py - SpecStatus                                       *)
(* Every external `az` call is one step; its exit status and its standard  *)
(* output are chosen by the environment.                                   *)
(***************************************************************************)
EXTENDS Integers, Sequences, FiniteSets, TLC

VARIABLES pc, args, log, out, exitCode, resources, insights_key,
          cost_json, sorted_costs, total_cost,
          plans, plan_i, recommendations, servers, server_i

vars == <<pc, args, log, out, exitCode, resources, insights_key,
          cost_json, sorted_costs, total_cost,
          plans, plan_i, recommendations, servers, server_i>>

deployVars == <<resources, insights_key>>
costVars == <<cost_json, sorted_costs, total_cost>>
planVars == <<plans, plan_i, recommendations>>
sqlVars == <<servers, server_i>>

\* value of a local that has not been assigned
None == "None"

\* ---------------------------------------------------------------------------
\* helpers on sequences
\* ---------------------------------------------------------------------------
Range(s) == {s[i] : i \in 1..Len(s)}

Min(a, b) == IF a <= b THEN a ELSE b

\* s[:n]
Take(s, n) == SubSeq(s, 1, Min(n, Len(s)))

\* the commands issued so far, in order
Cmds == [i \in 1..Len(log) |-> log[i].cmd]

Issued(c) == c \in Range(Cmds)

\* position of the first issue of command c (0 when it was not issued)
PosOf(c) == IF Issued(c) THEN CHOOSE i \in 1..Len(log) : log[i].cmd = c /\ \A j \in 1..(i-1) : log[j].cmd # c
            ELSE 0

\* ===========================================================================
\* deploy_webapp.py
\* ===========================================================================
Skus == {"F1", "B1"}
Runtimes == {"NODE:20-lts", "PYTHON:3.11"}

\* standard output of `component show --query instrumentationKey -o tsv`
Keys == {"", "ikey"}
\* standard output of `webapp show --query defaultHostName -o tsv`
Hosts == {"", "app.azurewebsites.net"}

\* the check= argument of each run_command call
VersionCheck == TRUE
AccountCheckOff == FALSE
AccountCheck == TRUE
GroupCheckOn == TRUE
GroupCheck == FALSE
PlanCheckOff == FALSE
PlanCheck == TRUE
WebappCheckOff == FALSE
WebappCheck == TRUE
InsightsCreateCheck == FALSE
InsightsShowCheck == FALSE
SettingsCheck == FALSE
UrlCheck == TRUE

\* run_command: subprocess.run(..., check=check) raises CalledProcessError
\* exactly when check is set and the command exits non-zero
Raises(check, ok) == check /\ ~ok

\* the entry run_command leaves in the list of issued commands
Call(c, arg, ok, stdout) == [cmd |-> c, arg |-> arg, ok |-> ok, stdout |-> stdout]

\* an uncaught exception: traceback, interpreter exits with status 1
Uncaught == pc' = "crashed" /\ exitCode' = 1

InitDeploy ==
    /\ pc = "version"
    /\ args \in [sku : Skus, runtime : Runtimes]
    /\ log = <<>>
    /\ out = <<>>
    /\ exitCode = -1
    /\ resources = {}
    /\ insights_key = None
    /\ cost_json = None /\ sorted_costs = None /\ total_cost = None
    /\ plans = None /\ plan_i = None /\ recommendations = None
    /\ servers = None /\ server_i = None

\* main -> check_azure_cli: run_command("az --version")
CheckVersion ==
    /\ pc = "version"
    /\ \E ok \in BOOLEAN :
        /\ log' = Append(log, Call("az --version", "", ok, ""))
        /\ IF Raises(VersionCheck, ok)
           THEN /\ out' = out \o <<"Azure CLI not installed or not logged in", "Run: az login">>
                /\ pc' = "exited"
                /\ exitCode' = 1
           ELSE /\ out' = out
                /\ pc' = "account"
                /\ exitCode' = exitCode
    /\ UNCHANGED <<args, deployVars, costVars, planVars, sqlVars>>

\* check_azure_cli: run_command("az account show"); on success main enters
\* deploy_webapp, which prints its banner and the resource group line
CheckAccount ==
    /\ pc = "account"
    /\ \E ok \in BOOLEAN :
        /\ log' = Append(log, Call("az account show", "", ok, ""))
        /\ IF Raises(AccountCheck, ok)
           THEN /\ out' = out \o <<"Azure CLI not installed or not logged in", "Run: az login">>
                /\ pc' = "exited"
                /\ exitCode' = 1
           ELSE /\ out' = out \o <<"Deploying", "Creating resource group">>
                /\ pc' = "group"
                /\ exitCode' = exitCode
    /\ UNCHANGED <<args, deployVars, costVars, planVars, sqlVars>>

\* az group create, check=False
CreateGroup ==
    /\ pc = "group"
    /\ \E ok \in BOOLEAN :
        /\ log' = Append(log, Call("group create", "", ok, ""))
        /\ resources' = IF ok THEN resources \cup {"group"} ELSE resources
        /\ IF Raises(GroupCheck, ok)
           THEN Uncaught /\ out' = out
           ELSE /\ out' = Append(out, "Creating App Service Plan")
                /\ pc' = "plan"
                /\ exitCode' = exitCode
    /\ UNCHANGED <<args, insights_key, costVars, planVars, sqlVars>>

\* az appservice plan create --sku {sku} --is-linux
CreatePlan ==
    /\ pc = "plan"
    /\ \E ok \in BOOLEAN :
        /\ log' = Append(log, Call("appservice plan create", args.sku, ok, ""))
        /\ resources' = IF ok THEN resources \cup {"plan"} ELSE resources
        /\ IF Raises(PlanCheck, ok)
           THEN Uncaught /\ out' = out
           ELSE /\ out' = Append(out, "Creating Web App")
                /\ pc' = "webapp"
                /\ exitCode' = exitCode
    /\ UNCHANGED <<args, insights_key, costVars, planVars, sqlVars>>

\* az webapp create --runtime '{runtime}'
CreateWebapp ==
    /\ pc = "webapp"
    /\ \E ok \in BOOLEAN :
        /\ log' = Append(log, Call("webapp create", args.runtime, ok, ""))
        /\ resources' = IF ok THEN resources \cup {"webapp"} ELSE resources
        /\ IF Raises(WebappCheck, ok)
           THEN Uncaught /\ out' = out
           ELSE /\ out' = Append(out, "Enabling Application Insights")
                /\ pc' = "insights_create"
                /\ exitCode' = exitCode
    /\ UNCHANGED <<args, insights_key, costVars, planVars, sqlVars>>

\* az monitor app-insights component create, check=False
CreateInsights ==
    /\ pc = "insights_create"
    /\ \E ok \in BOOLEAN :
        /\ log' = Append(log, Call("app-insights component create", "", ok, ""))
        /\ resources' = IF ok THEN resources \cup {"insights"} ELSE resources
        /\ IF Raises(InsightsCreateCheck, ok)
           THEN Uncaught
           ELSE /\ pc' = "insights_show"
                /\ exitCode' = exitCode
    /\ UNCHANGED <<args, out, insights_key, costVars, planVars, sqlVars>>

\* insights_key = run_command(az monitor app-insights component show ...,
\* check=False); then `if insights_key:`
ShowInsights ==
    /\ pc = "insights_show"
    /\ \E ok \in BOOLEAN, key \in Keys :
        /\ log' = Append(log, Call("app-insights component show", "", ok, key))
        /\ IF Raises(InsightsShowCheck, ok)
           THEN Uncaught /\ insights_key' = insights_key
           ELSE /\ insights_key' = key
                /\ pc' = IF key # "" THEN "settings" ELSE "url"
                /\ exitCode' = exitCode
    /\ UNCHANGED <<args, out, resources, costVars, planVars, sqlVars>>

\* az webapp config appsettings set, check=False
SetSettings ==
    /\ pc = "settings"
    /\ \E ok \in BOOLEAN :
        /\ log' = Append(log, Call("appsettings set", insights_key, ok, ""))
        /\ IF Raises(SettingsCheck, ok)
           THEN Uncaught
           ELSE /\ pc' = "url"
                /\ exitCode' = exitCode
    /\ UNCHANGED <<args, out, resources, insights_key, costVars, planVars, sqlVars>>

\* url = run_command(az webapp show --query defaultHostName); the closing
\* prints; main returns
ShowUrl ==
    /\ pc = "url"
    /\ \E ok \in BOOLEAN, host \in Hosts :
        /\ log' = Append(log, Call("webapp show", "", ok, host))
        /\ IF Raises(UrlCheck, ok)
           THEN Uncaught /\ out' = out
           ELSE /\ out' = out \o <<"Deployment complete", "URL", "Next steps">>
                /\ pc' = "exited"
                /\ exitCode' = 0
    /\ UNCHANGED <<args, resources, insights_key, costVars, planVars, sqlVars>>

NextDeploy ==
    \/ CheckVersion
    \/ CheckAccount
    \/ CreateGroup
    \/ CreatePlan
    \/ CreateWebapp
    \/ CreateInsights
    \/ ShowInsights
    \/ SetSettings
    \/ ShowUrl

SpecDeploy == InitDeploy /\ [][NextDeploy]_vars

\* ===========================================================================
\* cost_analyzer.py
\* ===========================================================================
\* sorted_costs[:10]
TopN == 10

\* bounds of the cost rows the query returns: a free prefix of rows followed
\* by a run of rows of one cost; costs are in whole cents, the unit the
\* two-decimal format prints exactly
MaxPrefix == 3
MaxRun == 9
MaxCredit == 1
MaxCost == 3

\* a row can be a credit (a negative cost)
CostValues == (0 - MaxCredit)..MaxCost

CostSeqs == {p \o [i \in 1..m |-> c] :
                p \in UNION {[1..n -> CostValues] : n \in 0..MaxPrefix},
                m \in 0..MaxRun,
                c \in CostValues}

\* a cost row [cost, resource group]; the resource group is named by the
\* row's place in the response
MkRows(costs) == [i \in 1..Len(costs) |-> [cost |-> costs[i], rg |-> i]]

\* standard output of an az call: nothing, text that is not JSON, or JSON
Empty == [kind |-> "empty"]
Garbage == [kind |-> "garbage"]
Json(v) == [kind |-> "json", value |-> v]

\* the exit statuses a standard output can come with: a call that failed
\* leaves no JSON on standard output
ExitOk(stdout) == IF stdout.kind = "json" THEN {TRUE} ELSE BOOLEAN

\* `if x_json:` - a non-empty string
Truthy(stdout) == stdout.kind # "empty"

\* json.loads raises JSONDecodeError on text that is not JSON
DecodeFails(stdout) == stdout.kind = "garbage"

\* a printed line of the report
Line(t) == [line |-> t]

RECURSIVE SumCosts(_)
SumCosts(rows) == IF rows = <<>> THEN 0 ELSE rows[1].cost + SumCosts(Tail(rows))

RECURSIVE InsertAsc(_, _)
InsertAsc(s, r) ==
    IF s = <<>> THEN <<r>>
    ELSE IF s[1].cost <= r.cost THEN <<s[1]>> \o InsertAsc(Tail(s), r)
    ELSE <<r>> \o s

\* place r behind every row whose cost is at least r's
RECURSIVE InsertDesc(_, _)
InsertDesc(s, r) ==
    IF s = <<>> THEN <<r>>
    ELSE IF s[1].cost >= r.cost THEN <<s[1]>> \o InsertDesc(Tail(s), r)
    ELSE <<r>> \o s

RECURSIVE SortedAsc(_)
SortedAsc(rows) ==
    IF rows = <<>> THEN <<>>
    ELSE InsertAsc(SortedAsc(SubSeq(rows, 1, Len(rows) - 1)), rows[Len(rows)])

\* sorted(rows, key=lambda x: x[0], reverse=True): stable, descending by cost
RECURSIVE SortedDesc(_)
SortedDesc(rows) ==
    IF rows = <<>> THEN <<>>
    ELSE InsertDesc(SortedDesc(SubSeq(rows, 1, Len(rows) - 1)), rows[Len(rows)])

TotalOfDisplayed(sorted) == SumCosts(Take(sorted, TopN))

\* total_cost = sum(row[0] for row in sorted_costs)
TotalCost(sorted) == SumCosts(sorted)

\* n/d (d > 0) rounded to the nearest integer, ties to even: what the
\* fixed-point float format does with a value that is exact in binary (every
\* tie within the bounds is a multiple of 1/16 percent)
RoundHalfEven(n, d) ==
    LET q == n \div d
        r == n % d
    IN  IF 2 * r < d THEN q
        ELSE IF 2 * r > d THEN q + 1
        ELSE IF q % 2 = 0 THEN q ELSE q + 1

\* f"{percentage:>5.1f}" of cost / total_cost * 100: the percentage in
\* tenths of a percent
Tenths(cost, total) ==
    IF total > 0 THEN RoundHalfEven(cost * 1000, total)
    ELSE RoundHalfEven((0 - cost) * 1000, 0 - total)

Unguarded(total) == TRUE

\* the guard of the division: `if total_cost > 0`
DivisionGuard(total) == total > 0

\* cost / total_cost raises ZeroDivisionError when it is evaluated with a
\* total of 0
DivisionRaises(total) == DivisionGuard(total) /\ total = 0

\* the rows of the table: for cost, resource_group, currency in sorted_costs[:10]
TableRows(sorted, total) ==
    [i \in 1..Min(TopN, Len(sorted)) |->
        [line |-> "row", rg |-> sorted[i].rg, cost |-> sorted[i].cost,
         pct |-> IF DivisionGuard(total) THEN Tenths(sorted[i].cost, total) ELSE 0]]

InitCommon ==
    /\ log = <<>>
    /\ out = <<>>
    /\ exitCode = -1
    /\ resources = None /\ insights_key = None
    /\ sorted_costs = None /\ total_cost = None
    /\ plans = None /\ plan_i = None /\ recommendations = None
    /\ servers = None /\ server_i = None

CostResponses == {Empty, Garbage} \cup {Json(MkRows(c)) : c \in CostSeqs}

\* get_subscription_costs on every response of the cost query
InitCost ==
    /\ pc = "costs"
    /\ args = [days |-> 30]
    /\ cost_json \in CostResponses
    /\ InitCommon

\* get_subscription_costs(days): the cost query (check=False) and the table
GetSubscriptionCosts ==
    /\ pc = "costs"
    /\ \E ok \in ExitOk(cost_json) :
         log' = Append(log, Call("costmanagement query", args.days, ok, cost_json))
    /\ IF ~Truthy(cost_json)
       THEN /\ out' = out \o <<Line("Cost by Resource Group")>>
            /\ UNCHANGED <<sorted_costs, total_cost>>
       ELSE IF DecodeFails(cost_json)
       THEN /\ out' = out \o <<Line("Cost by Resource Group"), Line("Unable to parse cost data")>>
            /\ UNCHANGED <<sorted_costs, total_cost>>
       ELSE IF cost_json.value = <<>>
       THEN /\ out' = out \o <<Line("Cost by Resource Group"), Line("No cost data available")>>
            /\ UNCHANGED <<sorted_costs, total_cost>>
       ELSE LET sorted == SortedDesc(cost_json.value)
                total == TotalCost(sorted)
            IN  /\ sorted_costs' = sorted
                /\ total_cost' = total
                /\ out' = IF DivisionRaises(total)
                          THEN out \o <<Line("Cost by Resource Group")>>
                          ELSE out \o <<Line("Cost by Resource Group")>>
                                   \o TableRows(sorted, total)
                                   \o <<[line |-> "total", cost |-> total]>>
    /\ IF Truthy(cost_json) /\ ~DecodeFails(cost_json) /\ cost_json.value # <<>>
          /\ DivisionRaises(TotalCost(SortedDesc(cost_json.value)))
       THEN Uncaught
       ELSE pc' = "plans" /\ exitCode' = exitCode
    /\ UNCHANGED <<args, resources, insights_key, cost_json, planVars, sqlVars>>

NextCost == GetSubscriptionCosts

SpecCost == InitCost /\ [][NextCost]_vars

\* ---------------------------------------------------------------------------
\* analyze_app_service_plans
\* ---------------------------------------------------------------------------
MaxPlans == 2
MaxApps == 3

Tiers == {"Basic", "Standard", "Premium"}

\* the plans `appservice plan list` can return; a plan is named by its place
PlanLists == UNION {[1..n -> Tiers] : n \in 0..MaxPlans}
MkPlans(tiers) == [i \in 1..Len(tiers) |-> [name |-> i, tier |-> tiers[i]]]

RecommendationsLoose(tier, app_count) ==
    IF app_count = 0 THEN <<"consider deleting">>
    ELSE IF tier = "Premium" /\ app_count <= 3 THEN <<"consider downgrading">>
    ELSE IF tier = "Standard" /\ app_count = 1 THEN <<"consider Basic tier">>
    ELSE <<>>

\* the if / elif / elif chain: what is appended to recommendations for a plan
Recommendations(tier, app_count) ==
    IF app_count = 0 THEN <<"consider deleting">>
    ELSE IF tier = "Premium" /\ app_count < 3 THEN <<"consider downgrading">>
    ELSE IF tier = "Standard" /\ app_count = 1 THEN <<"consider Basic tier">>
    ELSE <<>>

\* the closing `if recommendations:` block
RecommendationLines(recs) ==
    IF recs = <<>> THEN <<>>
    ELSE <<Line("Recommendations")>> \o [i \in 1..Len(recs) |-> [line |-> "rec", name |-> recs[i].name, rec |-> recs[i].rec]]

\* analyze_app_service_plans up to the loop: `appservice plan list`
ListPlans ==
    /\ pc = "plans"
    /\ \E stdout \in {Empty, Garbage} \cup {Json(MkPlans(t)) : t \in PlanLists} :
       \E ok \in ExitOk(stdout) :
        /\ log' = Append(log, Call("appservice plan list", args.resource_group, ok, stdout))
        /\ IF ~Truthy(stdout)
           THEN /\ out' = out \o <<Line("App Service Plan Analysis"), Line("No App Service Plans found")>>
                /\ pc' = "servers"
                /\ UNCHANGED <<exitCode, planVars>>
           ELSE IF DecodeFails(stdout)
           THEN /\ out' = out \o <<Line("App Service Plan Analysis")>>
                /\ Uncaught
                /\ UNCHANGED planVars
           ELSE /\ out' = out \o <<Line("App Service Plan Analysis")>>
                /\ plans' = stdout.value
                /\ plan_i' = 1
                /\ recommendations' = <<>>
                /\ pc' = IF stdout.value = <<>> THEN "servers" ELSE "apps"
                /\ exitCode' = exitCode
    /\ UNCHANGED <<args, deployVars, costVars, sqlVars>>

\* one turn of `for plan in plans`: the webapp list query, the plan's lines,
\* its recommendation; after the last plan the recommendations are printed
CountApps ==
    /\ pc = "apps"
    /\ \E stdout \in {Empty, Garbage} \cup {Json(n) : n \in 0..MaxApps} :
       \E ok \in ExitOk(stdout) :
        /\ log' = Append(log, Call("webapp list", plans[plan_i].name, ok, stdout))
        /\ IF Truthy(stdout) /\ DecodeFails(stdout)
           THEN /\ Uncaught
                /\ UNCHANGED <<out, planVars>>
           ELSE LET app_count == IF Truthy(stdout) THEN stdout.value ELSE 0
                    plan == plans[plan_i]
                    recs == recommendations \o
                            [i \in 1..Len(Recommendations(plan.tier, app_count)) |->
                                [name |-> plan.name, rec |-> Recommendations(plan.tier, app_count)[i]]]
                    shown == [line |-> "plan", name |-> plan.name, tier |-> plan.tier, apps |-> app_count]
                IN  /\ recommendations' = recs
                    /\ plan_i' = plan_i + 1
                    /\ plans' = plans
                    /\ exitCode' = exitCode
                    /\ IF plan_i = Len(plans)
                       THEN /\ out' = out \o <<shown>> \o RecommendationLines(recs)
                            /\ pc' = "servers"
                       ELSE /\ out' = Append(out, shown)
                            /\ pc' = "apps"
    /\ UNCHANGED <<args, deployVars, costVars, sqlVars>>

ResourceGroups == {"", "rg"}

\* analyze_app_service_plans(resource_group) on every answer of the two queries
InitPlans ==
    /\ pc = "plans"
    /\ args \in [resource_group : ResourceGroups]
    /\ cost_json = Empty
    /\ InitCommon

NextPlans ==
    \/ ListPlans
    \/ CountApps

SpecPlans == InitPlans /\ [][NextPlans]_vars

\* ---------------------------------------------------------------------------
\* analyze_databases, analyze_storage_accounts, main
\* ---------------------------------------------------------------------------
MaxServers == 1

Databases == {<<>>, <<[name |-> "master", tier |-> "System"]>>,
              <<[name |-> "db", tier |-> "Standard"]>>, <<[name |-> "db", tier |-> "Premium"]>>}

StorageAccounts == {<<>>, <<"Standard_LRS">>, <<"Premium_LRS">>}

\* the lines of one server: its name, then every database but master
RECURSIVE DbLines(_)
DbLines(dbs) ==
    IF dbs = <<>> THEN <<>>
    ELSE IF dbs[1].name = "master" THEN DbLines(Tail(dbs))
    ELSE <<[line |-> "db", name |-> dbs[1].name, tier |-> dbs[1].tier,
            review |-> dbs[1].tier \in {"Premium", "BusinessCritical"}]>> \o DbLines(Tail(dbs))

\* main up to get_subscription_costs: banner and `account show`
AccountShow ==
    /\ pc = "account"
    /\ \E stdout \in {Empty, Garbage, Json("sub")} :
       \E ok \in ExitOk(stdout) :
        /\ log' = Append(log, Call("account show", "", ok, stdout))
        /\ IF ~Truthy(stdout)
           THEN /\ out' = Append(out, Line("Azure Cost Analyzer"))
                /\ pc' = "costs"
                /\ exitCode' = exitCode
           ELSE IF DecodeFails(stdout)
           THEN /\ out' = Append(out, Line("Azure Cost Analyzer"))
                /\ Uncaught
           ELSE /\ out' = out \o <<Line("Azure Cost Analyzer"), Line("Subscription")>>
                /\ pc' = "costs"
                /\ exitCode' = exitCode
    /\ UNCHANGED <<args, deployVars, costVars, planVars, sqlVars>>

\* analyze_databases up to the loop: `sql server list`
ListServers ==
    /\ pc = "servers"
    /\ \E stdout \in {Empty, Garbage} \cup {Json(n) : n \in 0..MaxServers} :
       \E ok \in ExitOk(stdout) :
        /\ log' = Append(log, Call("sql server list", args.resource_group, ok, stdout))
        /\ IF ~Truthy(stdout)
           THEN /\ out' = out \o <<Line("SQL Database Analysis"), Line("No SQL Servers found")>>
                /\ pc' = "storage"
                /\ UNCHANGED <<exitCode, sqlVars>>
           ELSE IF DecodeFails(stdout)
           THEN /\ out' = out \o <<Line("SQL Database Analysis")>>
                /\ Uncaught
                /\ UNCHANGED sqlVars
           ELSE /\ out' = out \o <<Line("SQL Database Analysis")>>
                /\ servers' = stdout.value
                /\ server_i' = 1
                /\ pc' = IF stdout.value = 0 THEN "storage" ELSE "dbs"
                /\ exitCode' = exitCode
    /\ UNCHANGED <<args, deployVars, costVars, planVars>>

\* one turn of `for server in servers`: `sql db list` and the server's lines
ListDbs ==
    /\ pc = "dbs"
    /\ \E stdout \in {Empty, Garbage} \cup {Json(d) : d \in Databases} :
       \E ok \in ExitOk(stdout) :
        /\ log' = Append(log, Call("sql db list", server_i, ok, stdout))
        /\ IF Truthy(stdout) /\ DecodeFails(stdout)
           THEN /\ Uncaught
                /\ UNCHANGED <<out, sqlVars>>
           ELSE /\ out' = IF ~Truthy(stdout) THEN out
                          ELSE out \o <<[line |-> "server", name |-> server_i]>> \o DbLines(stdout.value)
                /\ server_i' = server_i + 1
                /\ servers' = servers
                /\ pc' = IF server_i = servers THEN "storage" ELSE "dbs"
                /\ exitCode' = exitCode
    /\ UNCHANGED <<args, deployVars, costVars, planVars>>

\* analyze_storage_accounts, then the closing lines of main
ListStorage ==
    /\ pc = "storage"
    /\ \E stdout \in {Empty, Garbage} \cup {Json(a) : a \in StorageAccounts} :
       \E ok \in ExitOk(stdout) :
        /\ log' = Append(log, Call("storage account list", args.resource_group, ok, stdout))
        /\ IF ~Truthy(stdout)
           THEN /\ out' = out \o <<Line("Storage Account Analysis"), Line("No Storage Accounts found"),
                                   Line("Analysis complete"), Line("General recommendations")>>
                /\ pc' = "exited"
                /\ exitCode' = 0
           ELSE IF DecodeFails(stdout)
           THEN /\ out' = out \o <<Line("Storage Account Analysis")>>
                /\ Uncaught
           ELSE /\ out' = out \o <<Line("Storage Account Analysis")>>
                              \o [i \in 1..Len(stdout.value) |->
                                    [line |-> "account", sku |-> stdout.value[i],
                                     premium |-> stdout.value[i] = "Premium_LRS"]]
                              \o <<Line("Analysis complete"), Line("General recommendations")>>
                /\ pc' = "exited"
                /\ exitCode' = 0
    /\ UNCHANGED <<args, deployVars, costVars, planVars, sqlVars>>

\* the answers of the cost query the whole report is run on
ReportCostResponses == {Empty, Garbage, Json(<<>>), Json(MkRows(<<1, 3>>))}

InitAnalyzer ==
    /\ pc = "account"
    /\ args = [days |-> 30, resource_group |-> ""]
    /\ cost_json \in ReportCostResponses
    /\ InitCommon

NextAnalyzer ==
    \/ AccountShow
    \/ GetSubscriptionCosts
    \/ ListPlans
    \/ CountApps
    \/ ListServers
    \/ ListDbs
    \/ ListStorage

SpecAnalyzer == InitAnalyzer /\ [][NextAnalyzer]_vars

\* ===========================================================================
\* resource_status.py
\* ===========================================================================
Types == {"webapp", "function", "container", "sql", "all"}

\* an option that was not given (None) is falsy like the empty string
Names == {"", "app"}
ServerNames == {"", "srv"}
DatabaseNames == {"", "db"}

BranchServerOnly(a) ==
    IF a.type = "all" THEN "list"
    ELSE IF a.type = "webapp" /\ a.name # "" THEN "webapp_show"
    ELSE IF a.type = "function" /\ a.name # "" THEN "function_show"
    ELSE IF a.type = "container" /\ a.name # "" THEN "container_show"
    ELSE IF a.type = "sql" /\ a.server # "" THEN "sql_show"
    ELSE "usage"

\* the if / elif chain of main: the check it selects, or the usage exit
Branch(a) ==
    IF a.type = "all" THEN "list"
    ELSE IF a.type = "webapp" /\ a.name # "" THEN "webapp_show"
    ELSE IF a.type = "function" /\ a.name # "" THEN "function_show"
    ELSE IF a.type = "container" /\ a.name # "" THEN "container_show"
    ELSE IF a.type = "sql" /\ a.server # "" /\ a.database # "" THEN "sql_show"
    ELSE "usage"

\* run_az_command of resource_status.py: check=True, CalledProcessError is
\* caught, "Error" is printed and "" returned
Returned(ok, stdout) == IF ok THEN stdout ELSE Empty

ErrorLine(ok) == IF ok THEN <<>> ELSE <<"Error">>

InitStatus ==
    /\ pc = "main"
    /\ args \in [type : Types, name : Names, server : ServerNames, database : DatabaseNames]
    /\ cost_json = Empty
    /\ InitCommon

\* main: parse_args, the first print, the selection of the check
Dispatch ==
    /\ pc = "main"
    /\ IF Branch(args) = "usage"
       THEN /\ out' = out \o <<"Checking Azure resources", "usage">>
            /\ pc' = "exited"
            /\ exitCode' = 1
       ELSE /\ out' = Append(out, "Checking Azure resources")
            /\ pc' = Branch(args)
            /\ exitCode' = exitCode
    /\ UNCHANGED <<args, log, deployVars, costVars, planVars, sqlVars>>

\* a check that issues one query, decodes it and prints its fields
OneQuery(at, cmd, arg, header, fields) ==
    /\ pc = at
    /\ \E stdout \in {Empty, Garbage, Json(cmd)}, ok \in BOOLEAN :
        /\ log' = Append(log, Call(cmd, arg, ok, stdout))
        /\ IF ~Truthy(Returned(ok, stdout))
           THEN /\ out' = out \o <<header>> \o ErrorLine(ok)
                /\ pc' = "exited"
                /\ exitCode' = 0
           ELSE IF DecodeFails(Returned(ok, stdout))
           THEN /\ out' = out \o <<header>>
                /\ Uncaught
           ELSE /\ out' = out \o <<header, fields>>
                /\ pc' = "exited"
                /\ exitCode' = 0
    /\ UNCHANGED <<args, deployVars, costVars, planVars, sqlVars>>

\* list_resources_in_group
ResourceList == OneQuery("list", "resource list", "", "Resources in group", "resources")

\* check_container_app_status
ContainerShow == OneQuery("container_show", "containerapp show", args.name, "Container App", "container fields")

\* check_sql_database_status
SqlDbShow == OneQuery("sql_show", "sql db show", <<args.server, args.database>>, "SQL Database", "database fields")

\* check_webapp_status up to the availability query
WebappShow ==
    /\ pc = "webapp_show"
    /\ \E stdout \in {Empty, Garbage, Json("app")}, ok \in BOOLEAN :
        /\ log' = Append(log, Call("webapp show", args.name, ok, stdout))
        /\ IF ~Truthy(Returned(ok, stdout))
           THEN /\ out' = out \o <<"Web App">> \o ErrorLine(ok)
                /\ pc' = "exited"
                /\ exitCode' = 0
           ELSE IF DecodeFails(Returned(ok, stdout))
           THEN /\ out' = out \o <<"Web App">>
                /\ Uncaught
           ELSE /\ out' = out \o <<"Web App", "webapp fields">>
                /\ pc' = "webapp_availability"
                /\ exitCode' = exitCode
    /\ UNCHANGED <<args, deployVars, costVars, planVars, sqlVars>>

\* check_webapp_status: the availabilityState query and its line
WebappAvailability ==
    /\ pc = "webapp_availability"
    /\ \E stdout \in {Empty, Garbage}, ok \in BOOLEAN :
        /\ log' = Append(log, Call("webapp show availabilityState", args.name, ok, stdout))
        /\ out' = out \o ErrorLine(ok) \o <<"Availability", "Recent logs">>
        /\ pc' = "webapp_logs"
    /\ UNCHANGED <<args, exitCode, deployVars, costVars, planVars, sqlVars>>

\* check_webapp_status: the log query and the last lines of it
WebappLogs ==
    /\ pc = "webapp_logs"
    /\ \E stdout \in {Empty, Garbage}, ok \in BOOLEAN :
        /\ log' = Append(log, Call("webapp log show", args.name, ok, stdout))
        /\ out' = out \o ErrorLine(ok)
                      \o (IF Truthy(Returned(ok, stdout)) THEN <<"log lines">> ELSE <<>>)
        /\ pc' = "exited"
        /\ exitCode' = 0
    /\ UNCHANGED <<args, deployVars, costVars, planVars, sqlVars>>

\* check_function_status up to the function query
FunctionShow ==
    /\ pc = "function_show"
    /\ \E stdout \in {Empty, Garbage, Json("func")}, ok \in BOOLEAN :
        /\ log' = Append(log, Call("functionapp show", args.name, ok, stdout))
        /\ IF ~Truthy(Returned(ok, stdout))
           THEN /\ out' = out \o <<"Function App">> \o ErrorLine(ok)
                /\ pc' = "exited"
                /\ exitCode' = 0
           ELSE IF DecodeFails(Returned(ok, stdout))
           THEN /\ out' = out \o <<"Function App">>
                /\ Uncaught
           ELSE /\ out' = out \o <<"Function App", "function fields">>
                /\ pc' = "function_list"
                /\ exitCode' = exitCode
    /\ UNCHANGED <<args, deployVars, costVars, planVars, sqlVars>>

\* check_function_status: the function query and the count line
FunctionList ==
    /\ pc = "function_list"
    /\ \E stdout \in {Empty, Garbage, Json("functions")}, ok \in BOOLEAN :
        /\ log' = Append(log, Call("functionapp function show", args.name, ok, stdout))
        /\ IF Truthy(Returned(ok, stdout)) /\ DecodeFails(Returned(ok, stdout))
           THEN /\ out' = out
                /\ Uncaught
           ELSE /\ out' = out \o ErrorLine(ok) \o <<"Functions deployed">>
                /\ pc' = "exited"
                /\ exitCode' = 0
    /\ UNCHANGED <<args, deployVars, costVars, planVars, sqlVars>>

NextStatus ==
    \/ Dispatch
    \/ ResourceList
    \/ ContainerShow
    \/ SqlDbShow
    \/ WebappShow
    \/ WebappAvailability
    \/ WebappLogs
    \/ FunctionShow
    \/ FunctionList

SpecStatus == InitStatus /\ [][NextStatus]_vars

\* ---------------------------------------------------------------------------
\* properties of get_subscription_costs
\* ---------------------------------------------------------------------------
\* get_subscription_costs has returned (or raised) on a response with rows
HasRows ==
    /\ pc # "costs"
    /\ cost_json.kind = "json"
    /\ cost_json.value # <<>>

InputRows == cost_json.value

IsRowLine(l) == l.line = "row"
IsTotalLine(l) == l.line = "total"

PrintedRows == SelectSeq(out, IsRowLine)
PrintedTotals == SelectSeq(out, IsTotalLine)

RECURSIVE SumPct(_)
SumPct(ls) == IF ls = <<>> THEN 0 ELSE ls[1].pct + SumPct(Tail(ls))

Abs(x) == IF x < 0 THEN 0 - x ELSE x

\* C4: the printed total is the sum of the costs of all rows of the response.
C4_TotalOfAllRows ==
    HasRows =>
        /\ Len(PrintedTotals) = 1
        /\ PrintedTotals[1].cost = SumCosts(InputRows)

C4_Witness ==
    /\ HasRows
    /\ Len(InputRows) > TopN
    /\ Len(PrintedTotals) = 1
    /\ PrintedTotals[1].cost # SumCosts(PrintedRows)

\* C5 as stated: with a total above 0 the printed percentages sum to at most
\* 100% (1000 tenths); with a total of 0 every percentage is 0 and nothing is
\* raised.
C5_Original ==
    HasRows =>
        /\ SumCosts(InputRows) > 0 => SumPct(PrintedRows) <= 1000
        /\ SumCosts(InputRows) = 0 =>
              /\ pc # "crashed"
              /\ Len(PrintedRows) = Min(TopN, Len(InputRows))
              /\ \A i \in 1..Len(PrintedRows) : PrintedRows[i].pct = 0

\* C5 amended: with a total above 0 and no negative cost, every printed
\* percentage is the row's share of the total rounded to one decimal (within
\* 0.05%), the displayed costs sum to at most the total, and the printed
\* percentages sum to at most 100% plus 0.05% per displayed row; with a total
\* of 0 every percentage is 0 and nothing is raised.
C5_Percentages ==
    HasRows =>
        /\ (SumCosts(InputRows) > 0 /\ \A i \in 1..Len(InputRows) : InputRows[i].cost >= 0) =>
              /\ \A i \in 1..Len(PrintedRows) :
                    2 * Abs(PrintedRows[i].pct * SumCosts(InputRows) - 1000 * PrintedRows[i].cost)
                        <= SumCosts(InputRows)
              /\ SumCosts(PrintedRows) <= SumCosts(InputRows)
              /\ 2 * SumPct(PrintedRows) <= 2000 + Len(PrintedRows)
        /\ SumCosts(InputRows) = 0 =>
              /\ pc # "crashed"
              /\ Len(PrintedRows) = Min(TopN, Len(InputRows))
              /\ \A i \in 1..Len(PrintedRows) : PrintedRows[i].pct = 0

C5_Witness ==
    /\ HasRows
    /\ SumCosts(InputRows) > 0
    /\ \A i \in 1..Len(InputRows) : InputRows[i].cost >= 0
    /\ SumPct(PrintedRows) > 1000

\* C6: min(10, n) rows are printed, in non-increasing order of cost, each a
\* different row of the response, and no row left out costs more than a
\* printed one.
C6_TopTen ==
    HasRows =>
        /\ Len(PrintedRows) = Min(TopN, Len(InputRows))
        /\ \A i \in 1..(Len(PrintedRows) - 1) : PrintedRows[i].cost >= PrintedRows[i+1].cost
        /\ \A i \in 1..Len(PrintedRows) :
              /\ PrintedRows[i].rg \in 1..Len(InputRows)
              /\ InputRows[PrintedRows[i].rg].cost = PrintedRows[i].cost
        /\ \A i, j \in 1..Len(PrintedRows) : i # j => PrintedRows[i].rg # PrintedRows[j].rg
        /\ \A k \in 1..Len(InputRows) :
              (\A i \in 1..Len(PrintedRows) : PrintedRows[i].rg # k) =>
                  \A i \in 1..Len(PrintedRows) : InputRows[k].cost <= PrintedRows[i].cost

C6_Witness ==
    /\ HasRows
    /\ Len(InputRows) > TopN
    /\ Len(PrintedRows) = TopN
    /\ \E i \in 1..TopN : InputRows[i].cost < InputRows[TopN + 1].cost
    /\ PrintedRows[1].cost > PrintedRows[TopN].cost

\* ---------------------------------------------------------------------------
\* properties of deploy_webapp.py
\* ---------------------------------------------------------------------------
CreationCmds == {"group create", "appservice plan create", "webapp create",
                 "app-insights component create"}

ProvisioningCmds == CreationCmds \cup {"app-insights component show", "appsettings set", "webapp show"}

\* what a successful creation call leaves in the subscription
Creates(c) == CASE c = "group create" -> "group"
                [] c = "appservice plan create" -> "plan"
                [] c = "webapp create" -> "webapp"
                [] c = "app-insights component create" -> "insights"

Failed(c) == \E i \in 1..Len(log) : log[i].cmd = c /\ ~log[i].ok

\* the call issued right after the i-th one is c; when the i-th call is the
\* latest one, the script stands right before issuing c
FollowedBy(i, c, at) == IF i < Len(log) THEN log[i+1].cmd = c ELSE pc = at

\* C1: the creation calls are issued in the order resource group -> hosting
\* plan -> web app, each at most once, and after a failed hosting-plan
\* creation the web-app creation is never issued.
C1_CreationOrder ==
    /\ \A i, j \in 1..Len(log) : (i # j /\ log[i].cmd \in CreationCmds) => log[i].cmd # log[j].cmd
    /\ Issued("appservice plan create") =>
          /\ Issued("group create")
          /\ PosOf("group create") < PosOf("appservice plan create")
    /\ Issued("webapp create") =>
          /\ Issued("appservice plan create")
          /\ PosOf("appservice plan create") < PosOf("webapp create")
    /\ Failed("appservice plan create") => ~Issued("webapp create")

C1_Witness ==
    /\ Failed("appservice plan create")
    /\ Issued("group create")
    /\ pc = "crashed"

\* C3: both checks run before any provisioning call; when either check fails
\* the login hint is printed, the script exits with status 1 and no
\* provisioning call is ever issued.
C3_ChecksFirst ==
    /\ \A i \in 1..Len(log) : log[i].cmd \in ProvisioningCmds =>
          /\ i > 2
          /\ log[1].cmd = "az --version" /\ log[1].ok
          /\ log[2].cmd = "az account show" /\ log[2].ok
    /\ (Failed("az --version") \/ Failed("az account show")) =>
          /\ pc = "exited"
          /\ exitCode = 1
          /\ "Run: az login" \in Range(out)
          /\ \A i \in 1..Len(log) : log[i].cmd \notin ProvisioningCmds

C3_Witness ==
    /\ Len(log) = 2
    /\ log[1].ok
    /\ ~log[2].ok
    /\ pc = "exited"

\* C9: a failed best-effort step does not stop the pipeline: the resource
\* group call is followed by the hosting plan call whatever its outcome, the
\* telemetry creation by the key lookup, the key lookup by the settings
\* update when it returned a key and by the hostname query otherwise, the
\* settings update by the hostname query; the settings update is issued only
\* after a key lookup that returned a non-empty key.
C9_BestEffort ==
    \A i \in 1..Len(log) :
        /\ log[i].cmd = "group create" => FollowedBy(i, "appservice plan create", "plan")
        /\ log[i].cmd = "app-insights component create" =>
              FollowedBy(i, "app-insights component show", "insights_show")
        /\ log[i].cmd = "app-insights component show" =>
              IF log[i].stdout # ""
              THEN FollowedBy(i, "appsettings set", "settings")
              ELSE FollowedBy(i, "webapp show", "url")
        /\ log[i].cmd = "appsettings set" =>
              /\ FollowedBy(i, "webapp show", "url")
              /\ i > 1
              /\ log[i-1].cmd = "app-insights component show"
              /\ log[i-1].stdout # ""

C9_Witness ==
    /\ Failed("group create")
    /\ Failed("app-insights component create")
    /\ Failed("app-insights component show")
    /\ Failed("appsettings set")
    /\ Issued("webapp show")

\* C10: after a failed hosting-plan or web-app creation no further command is
\* issued (so nothing is deleted), the script has stopped, "Deployment
\* complete" is not printed, and what the earlier successful creation calls
\* made is still there.
C10_NoRollback ==
    \A i \in 1..Len(log) :
        (log[i].cmd \in {"appservice plan create", "webapp create"} /\ ~log[i].ok) =>
            /\ i = Len(log)
            /\ pc = "crashed"
            /\ exitCode = 1
            /\ "Deployment complete" \notin Range(out)
            /\ \A j \in 1..(i-1) : (log[j].cmd \in CreationCmds /\ log[j].ok) =>
                                       Creates(log[j].cmd) \in resources

C10_Witness ==
    /\ Failed("webapp create")
    /\ resources = {"group", "plan"}
    /\ pc = "crashed"

\* ---------------------------------------------------------------------------
\* properties of analyze_app_service_plans
\* ---------------------------------------------------------------------------
IsPlanLine(l) == l.line = "plan"
IsRecLine(l) == l.line = "rec"

\* the plans whose turn of the loop is over, with the app count found
ProcessedPlans == SelectSeq(out, IsPlanLine)

\* the recommendations appended for the plan of that name
RecsFor(name) ==
    LET mine == SelectSeq(recommendations, LAMBDA r : r.name = name)
    IN  [i \in 1..Len(mine) |-> mine[i].rec]

Count(seq, x) == Cardinality({i \in 1..Len(seq) : seq[i] = x})

\* C7 as stated: a plan with zero apps gets "consider deleting", a Premium
\* plan with fewer than 3 apps gets "consider downgrading", a Standard plan
\* with exactly 1 app gets "consider Basic tier", and a Premium plan with 1
\* app gets "consider downgrading" exactly once.
C7_Original ==
    \A k \in 1..Len(ProcessedPlans) :
        LET p == ProcessedPlans[k]
            recs == RecsFor(p.name)
        IN  /\ p.apps = 0 => Count(recs, "consider deleting") >= 1
            /\ (p.tier = "Premium" /\ p.apps < 3) => Count(recs, "consider downgrading") >= 1
            /\ (p.tier = "Standard" /\ p.apps = 1) => Count(recs, "consider Basic tier") >= 1
            /\ (p.tier = "Premium" /\ p.apps = 1) => Count(recs, "consider downgrading") = 1

\* C7 amended: the recommendation of a plan depends on its tier and app count
\* only: "consider deleting" with zero apps, "consider downgrading" for a
\* Premium plan with 1 or 2 apps, "consider Basic tier" for a Standard plan
\* with exactly 1 app, none otherwise, and never more than one; once the loop
\* is over the recommendations are printed as appended.
C7_Recommendations ==
    /\ \A k \in 1..Len(ProcessedPlans) :
        LET p == ProcessedPlans[k]
            recs == RecsFor(p.name)
        IN  /\ Len(recs) <= 1
            /\ Count(recs, "consider deleting") = (IF p.apps = 0 THEN 1 ELSE 0)
            /\ Count(recs, "consider downgrading") =
                  (IF p.tier = "Premium" /\ p.apps \in {1, 2} THEN 1 ELSE 0)
            /\ Count(recs, "consider Basic tier") =
                  (IF p.tier = "Standard" /\ p.apps = 1 THEN 1 ELSE 0)
    /\ (pc = "servers" /\ \E i \in 1..Len(log) : log[i].cmd = "appservice plan list"
                                                  /\ log[i].stdout.kind = "json") =>
          /\ Len(ProcessedPlans) = Len(plans)
          /\ LET printed == SelectSeq(out, IsRecLine)
             IN  /\ Len(printed) = Len(recommendations)
                 /\ \A i \in 1..Len(printed) :
                       /\ printed[i].name = recommendations[i].name
                       /\ printed[i].rec = recommendations[i].rec

C7_Witness ==
    /\ pc = "servers"
    /\ \E k \in 1..Len(ProcessedPlans) :
          /\ ProcessedPlans[k].tier = "Premium"
          /\ ProcessedPlans[k].apps = 1
          /\ RecsFor(ProcessedPlans[k].name) = <<"consider downgrading">>
    /\ [line |-> "rec", name |-> 1, rec |-> "consider downgrading"] \in Range(out)

\* ---------------------------------------------------------------------------
\* properties of the cost analyzer's main
\* ---------------------------------------------------------------------------
SectionCmds == {"costmanagement query", "appservice plan list", "webapp list",
                "sql server list", "sql db list", "storage account list"}

\* the query each section starts with
SectionHeads == {"costmanagement query", "appservice plan list",
                 "sql server list", "storage account list"}

NoData(c) == ~c.ok \/ c.stdout.kind = "garbage"

\* the fallback line of the section a query opens
Fallbacks(cmd) ==
    CASE cmd = "costmanagement query" -> {Line("Unable to parse cost data"), Line("No cost data available")}
      [] cmd = "appservice plan list" -> {Line("No App Service Plans found")}
      [] cmd = "sql server list" -> {Line("No SQL Servers found")}
      [] cmd = "storage account list" -> {Line("No Storage Accounts found")}

\* C2: a query of a report section that fails or returns text that is not
\* JSON never aborts the report: the run does not crash, and at its end the
\* fallback line of every such section is printed, all four sections have
\* run and "Analysis complete" is printed.
C2_NeverAborts ==
    \A i \in 1..Len(log) :
        (log[i].cmd \in SectionCmds /\ NoData(log[i])) =>
            /\ pc # "crashed"
            /\ pc = "exited" =>
                  /\ Line("Analysis complete") \in Range(out)
                  /\ Issued("appservice plan list")
                  /\ Issued("sql server list")
                  /\ Issued("storage account list")
                  /\ \A j \in 1..Len(log) :
                        (log[j].cmd \in SectionHeads /\ NoData(log[j])) =>
                            Fallbacks(log[j].cmd) \cap Range(out) # {}

\* ---------------------------------------------------------------------------
\* properties of resource_status.py
\* ---------------------------------------------------------------------------
NeedsName == {"webapp", "function", "container"}

\* C8: a type that needs a name without a name, or sql without the server or
\* without the database, prints the usage and exits with status 1 without
\* issuing any query; type all never prints the usage and runs the resource
\* listing whatever else is given.
C8_ArgumentValidation ==
    pc # "main" =>
        /\ ((args.type \in NeedsName /\ args.name = "")
             \/ (args.type = "sql" /\ (args.server = "" \/ args.database = ""))) =>
              /\ "usage" \in Range(out)
              /\ pc = "exited"
              /\ exitCode = 1
              /\ log = <<>>
        /\ args.type = "all" =>
              /\ "usage" \notin Range(out)
              /\ pc = "list" \/ (Len(log) = 1 /\ log[1].cmd = "resource list"
                                 /\ "Resources in group" \in Range(out))

C8_Witness ==
    /\ args.type = "sql"
    /\ args.server # ""
    /\ args.database = ""
    /\ pc = "exited"
    /\ exitCode = 1

====
